---------------------------- MODULE Spec2Model ----------------------------
(***************************************************************************)
(* A model of the To-Do REST service of src/To_Do_API.cpp: the Task        *)
(* entity, the mutex-protected TaskStorage and the HTTP handlers of        *)
(* TodoAPI that call it.                                                   *)
(*                                                                         *)
(* Three specifications share the definitions that model the code:         *)
(*   Spec        one caller at a time invoking TaskStorage operations,     *)
(*               each operation one step (its whole critical section);     *)
(*   SpecAPI     TodoAPI: startup seeding, then HTTP requests, each        *)
(*               handler one step;                                         *)
(*   SpecThreads handler threads calling TaskStorage concurrently, with    *)
(*               the mutex and every write of a critical section a step.   *)
(***************************************************************************)
EXTENDS Integers, Sequences, FiniteSets, TLC

(***************************************************************************)
(* Bounds of the model.                                                    *)
(***************************************************************************)
\* createTask is called while nextId <= MaxId: at most MaxId ids are issued.
MaxId == 2
\* identifiers a caller may ask for: the issued ones and one never issued
Ids == 1..(MaxId + 1)

(***************************************************************************)
(* The wall clock: std::time(nullptr), in seconds.  It starts one second   *)
(* before a day boundary, so that one tick carries through every field of  *)
(* the formatted time.  The clock never goes backwards.                    *)
(***************************************************************************)
StartClock == 24 * 3600 - 1
\* the readings of the clock that are told apart: before and after that tick
ClockValues == {StartClock, StartClock + 1}

(***************************************************************************)
(* JSON values (nlohmann::json) as far as the code looks at them: a key    *)
(* of an object is absent, or holds a string, a number or null.            *)
(***************************************************************************)
Absent == [t |-> "absent", s |-> "", n |-> 0]
Null == [t |-> "null", s |-> "", n |-> 0]
Number(n) == [t |-> "number", s |-> "", n |-> n]
Str(s) == [t |-> "string", s |-> s, n |-> 0]
\* a string that holds a formatted time
TimeStr(stamp) == [t |-> "string", s |-> "", n |-> 0, stamp |-> stamp]
\* a value that is not a string
Num == Number(5)

Keys == {"title", "description", "status"}

\* json::contains(key)
contains(j, key) == j[key].t # "absent"

\* json -> std::string conversion (task.title = j["title"]): a value that is
\* not a string raises nlohmann's type_error
ConvThrows(v) == v.t # "string"
AsString(v) == v.s

\* json::empty(): true for null (and for an empty array or object); a string
\* or a number is never empty, whatever it holds
JsonEmpty(v) == v.t = "null"

\* json::empty() of an object: no keys
ObjectEmpty(j) == \A k \in Keys : ~contains(j, k)

(***************************************************************************)
(* Task                                                                    *)
(***************************************************************************)
\* std::string(): the timestamp fields before any setTime()
NoTime == <<>>

\* put_time(&tm, "%Y-%m-%d %H:%M:%S"): the date (here the day number) and
\* then hours, minutes, seconds, each of fixed width, most significant first
FormatTime_SecondsFirst(t) ==
    <<t % 60, (t \div 60) % 60, (t \div 3600) % 24, t \div 86400>>

FormatTime(t) ==
    <<t \div 86400, (t \div 3600) % 24, (t \div 60) % 60, t % 60>>

\* std::string operator<= on two timestamps: lexicographic
RECURSIVE LexLeq(_, _)
LexLeq(a, b) ==
    IF a = <<>> THEN TRUE
    ELSE IF b = <<>> THEN FALSE
    ELSE IF Head(a) # Head(b) THEN Head(a) < Head(b)
    ELSE LexLeq(Tail(a), Tail(b))

\* Task(): id(0), status("todo"), the strings empty
DefaultTask ==
    [id |-> 0, title |-> "", description |-> "", status |-> "todo",
     create_time |-> NoTime, update_time |-> NoTime]

setTime_CreateOnly(task, now) ==
    [task EXCEPT !.create_time = FormatTime(now)]

\* Task::setTime
setTime(task, now) ==
    [task EXCEPT !.create_time = FormatTime(now),
                 !.update_time = FormatTime(now)]

\* Task::updateTime
updateTime(task, now) ==
    [task EXCEPT !.update_time = FormatTime(now)]

\* Task(id, title, description, status): the fields, then setTime()
NewTask(id, title, description, status, now) ==
    setTime([DefaultTask EXCEPT !.id = id, !.title = title,
                                !.description = description,
                                !.status = status], now)

\* Task::toJson: the six fields
toJson(task) ==
    [id |-> Number(task.id), title |-> Str(task.title),
     description |-> Str(task.description), status |-> Str(task.status),
     create_time |-> TimeStr(task.create_time),
     update_time |-> TimeStr(task.update_time)]

(***************************************************************************)
(* TaskStorage: std::map<int, Task> tasks, int nextId = 1, std::mutex mtx. *)
(* The map is a function from the stored ids to their tasks.               *)
(***************************************************************************)
EmptyMap == [k \in {} |-> DefaultTask]

\* tasks[k] = v
Put(m, k, v) == [x \in DOMAIN m \cup {k} |-> IF x = k THEN v ELSE m[x]]

\* tasks.erase(k)
Erase(m, k) == [x \in DOMAIN m \ {k} |-> m[x]]

\* tasks.size()
Size(m) == Cardinality(DOMAIN m)

createTaskBody_ReuseId(m, n, task, now) ==
    LET newTask == setTime([task EXCEPT !.id = Size(m) + 1], now)
    IN  [tasks |-> Put(m, newTask.id, newTask), nextId |-> n + 1,
         ret |-> newTask]

createTaskBody_KeepsCounter(m, n, task, now) ==
    LET newTask == setTime([task EXCEPT !.id = n], now)
    IN  [tasks |-> Put(m, newTask.id, newTask), nextId |-> n, ret |-> newTask]

createTaskBody_CallerId(m, n, task, now) ==
    LET newTask == setTime([task EXCEPT !.id = IF task.id # 0 THEN task.id ELSE n],
                           now)
    IN  [tasks |-> Put(m, newTask.id, newTask), nextId |-> n + 1,
         ret |-> newTask]

\* TaskStorage::createTask, its critical section: the copy of the argument
\* gets id = nextId++ and setTime(), is stored under its id and returned
createTaskBody(m, n, task, now) ==
    LET newTask == setTime([task EXCEPT !.id = n], now)
    IN  [tasks |-> Put(m, newTask.id, newTask), nextId |-> n + 1,
         ret |-> newTask]

\* the iteration of std::map: ascending key order
RECURSIVE InKeyOrder(_, _)
InKeyOrder(m, ks) ==
    IF ks = {} THEN <<>>
    ELSE LET k == CHOOSE x \in ks : \A y \in ks : x <= y
         IN  <<m[k]>> \o InKeyOrder(m, ks \ {k})

getAllTasksBody_Reversed(m) ==
    LET s == InKeyOrder(m, DOMAIN m)
    IN  [i \in 1..Len(s) |-> s[Len(s) + 1 - i]]

\* TaskStorage::getAllTasks: push_back of every pair.second, in map order
getAllTasksBody(m) == InKeyOrder(m, DOMAIN m)

getTaskBody_NoSentinel(m, id) ==
    IF id \in DOMAIN m THEN m[id] ELSE [DefaultTask EXCEPT !.id = id]

\* TaskStorage::getTask: the stored task, or Task() when find() fails
getTaskBody(m, id) == IF id \in DOMAIN m THEN m[id] ELSE DefaultTask

\* the three assignments of updateTask, in the order of the code
assignTitle(task, updatedTask) == [task EXCEPT !.title = updatedTask.title]
assignDescription(task, updatedTask) ==
    [task EXCEPT !.description = updatedTask.description]
assignStatus(task, updatedTask) == [task EXCEPT !.status = updatedTask.status]

updateTaskBody_InsertsMissing(m, id, updatedTask, now) ==
    [tasks |-> Put(m, id, updateTime([updatedTask EXCEPT !.id = id], now)),
     ret |-> TRUE]

updateTaskBody_CopiesAll(m, id, updatedTask, now) ==
    IF id \in DOMAIN m
    THEN [tasks |-> Put(m, id, updateTime(updatedTask, now)), ret |-> TRUE]
    ELSE [tasks |-> m, ret |-> FALSE]

\* TaskStorage::updateTask, its critical section
updateTaskBody(m, id, updatedTask, now) ==
    IF id \in DOMAIN m
    THEN [tasks |-> Put(m, id,
                        updateTime(assignStatus(assignDescription(
                            assignTitle(m[id], updatedTask),
                            updatedTask), updatedTask), now)),
          ret |-> TRUE]
    ELSE [tasks |-> m, ret |-> FALSE]

\* the order in which patchTask looks at the keys
PatchOrder == <<"title", "description", "status">>

\* if (updates.contains(key)) task.<key> = updates[key]; the conversion of a
\* value that is not a string raises before the field is assigned
patchThrows(updates, key) == contains(updates, key) /\ ConvThrows(updates[key])

patchField_ClearsAbsent(task, updates, key) ==
    IF contains(updates, key)
    THEN [task EXCEPT ![key] = AsString(updates[key])]
    ELSE [task EXCEPT ![key] = ""]

patchField(task, updates, key) ==
    IF contains(updates, key)
    THEN [task EXCEPT ![key] = AsString(updates[key])]
    ELSE task

\* the fields of PatchOrder from position i on, applied until one raises:
\* the task as the critical section leaves it, and whether it raised
RECURSIVE patchFrom(_, _, _)
patchFrom(task, updates, i) ==
    IF i > Len(PatchOrder) THEN [task |-> task, raised |-> FALSE]
    ELSE IF patchThrows(updates, PatchOrder[i])
         THEN [task |-> task, raised |-> TRUE]
         ELSE patchFrom(patchField(task, updates, PatchOrder[i]), updates, i + 1)

\* TaskStorage::patchTask, its critical section: raised means that the
\* type_error left the function (the lock_guard releases the mutex)
patchTaskBody(m, id, updates, now) ==
    IF id \in DOMAIN m
    THEN LET p == patchFrom(m[id], updates, 1)
         IN  IF p.raised
             THEN [tasks |-> Put(m, id, p.task), ret |-> FALSE, raised |-> TRUE]
             ELSE [tasks |-> Put(m, id, updateTime(p.task, now)),
                   ret |-> TRUE, raised |-> FALSE]
    ELSE [tasks |-> m, ret |-> FALSE, raised |-> FALSE]

deleteTaskBody_EraseAll(m, id) ==
    [tasks |-> IF id \in DOMAIN m THEN EmptyMap ELSE m, ret |-> id \in DOMAIN m]

\* TaskStorage::deleteTask: tasks.erase(id) > 0
deleteTaskBody(m, id) == [tasks |-> Erase(m, id), ret |-> id \in DOMAIN m]

countBody_IssuedIds(m, n) == n - 1

\* TaskStorage::count: tasks.size()
countBody(m, n) == Size(m)

(***************************************************************************)
(* State.                                                                  *)
(***************************************************************************)
VARIABLES
    tasks,      \* TaskStorage::tasks
    nextId,     \* TaskStorage::nextId
    mtx,        \* TaskStorage::mtx: the thread that holds it, or NoThread
    clock,      \* the wall clock, in seconds
    issued,     \* history: the ids createTask has returned, oldest first
    erased,     \* history: how many deleteTask calls returned true
    call,       \* Spec: the latest TaskStorage call, [op, id, task, updates]
    result,     \* Spec: what that call returned
    started,    \* SpecAPI: TodoAPI::run has seeded the store and listens
    request,    \* SpecAPI: the latest HTTP request
    response,   \* SpecAPI: the answer to it
    pc,         \* SpecThreads: where each thread is
    req,        \* SpecThreads: the call each thread is making
    ret         \* SpecThreads: what each thread's call returned

storeVars == <<tasks, nextId, mtx, issued, erased>>
seqVars == <<call, result>>
apiVars == <<started, request, response>>
threadVars == <<pc, req, ret>>
vars == <<tasks, nextId, mtx, clock, issued, erased, call, result,
          started, request, response,
          pc, req, ret>>

NoThread == 0
Threads == {1, 2}

NoUpdates == [title |-> Absent, description |-> Absent, status |-> Absent]

\* what an operation hands back: a Task, a bool, a vector of Task, a size, or
\* an exception that left it
NoResult ==
    [kind |-> "none", b |-> FALSE, task |-> DefaultTask, list |-> <<>>, n |-> 0]
TaskResult(t) == [NoResult EXCEPT !.kind = "task", !.task = t]
BoolResult(b) == [NoResult EXCEPT !.kind = "bool", !.b = b]
ListResult(l) == [NoResult EXCEPT !.kind = "list", !.list = l]
CountResult(n) == [NoResult EXCEPT !.kind = "count", !.n = n]
Raised == [NoResult EXCEPT !.kind = "raised"]

NoCall == [op |-> "none", id |-> 0, task |-> DefaultTask, updates |-> NoUpdates]
Call(op, id, task, updates) ==
    [op |-> op, id |-> id, task |-> task, updates |-> updates]

NoRequest == [method |-> "none", id |-> 0, parsed |-> TRUE, body |-> NoUpdates]

\* responses: the status code and what the body holds
NoJson == toJson(DefaultTask)
NoResponse ==
    [status |-> 0, error |-> "", task |-> NoJson, list |-> <<>>, n |-> 0]

InitStore ==
    /\ tasks = EmptyMap
    /\ nextId = 1
    /\ mtx = NoThread
    /\ clock = StartClock
    /\ issued = <<>>
    /\ erased = 0

InitIdle ==
    /\ call = NoCall
    /\ result = NoResult
    /\ started = FALSE
    /\ request = NoRequest
    /\ response = NoResponse
    /\ pc = [t \in Threads |-> "idle"]
    /\ req = [t \in Threads |-> NoCall]
    /\ ret = [t \in Threads |-> NoResult]

\* a second passes
Tick ==
    /\ \E c \in ClockValues : c > clock /\ clock' = c
    /\ UNCHANGED <<storeVars, seqVars, apiVars, threadVars>>

(***************************************************************************)
(* Spec: TaskStorage called by one caller at a time.  Every operation      *)
(* takes the mutex, runs its critical section and releases the mutex, so   *)
(* an operation is one step from a state with the mutex free to another.   *)
(***************************************************************************)
\* Tasks handed to createTask and updateTask: as Task::fromJson builds them
\* (id 0, no timestamps), and one built by the constructor at StartClock that
\* carries an id and timestamps of its own
InTasks ==
    { [DefaultTask EXCEPT !.title = "A", !.description = "d", !.status = "done"],
      DefaultTask,
      NewTask(7, "A", "", "todo", StartClock) }

\* update maps handed to patchTask
InUpdates ==
    { [title |-> ti, description |-> de, status |-> st] :
        ti \in {Absent, Str("A"), Num},
        de \in {Absent, Str("d")},
        st \in {Absent, Str("done"), Num} }

createTask(task) ==
    /\ call = NoCall
    /\ mtx = NoThread
    /\ nextId <= MaxId
    /\ LET r == createTaskBody(tasks, nextId, task, clock)
       IN  /\ tasks' = r.tasks
           /\ nextId' = r.nextId
           /\ issued' = Append(issued, r.ret.id)
           /\ result' = TaskResult(r.ret)
    /\ call' = Call("createTask", 0, task, NoUpdates)
    /\ UNCHANGED <<mtx, erased, clock, apiVars, threadVars>>

getAllTasks ==
    /\ call = NoCall
    /\ mtx = NoThread
    /\ result' = ListResult(getAllTasksBody(tasks))
    /\ call' = Call("getAllTasks", 0, DefaultTask, NoUpdates)
    /\ UNCHANGED <<storeVars, clock, apiVars, threadVars>>

getTask(id) ==
    /\ call = NoCall
    /\ mtx = NoThread
    /\ result' = TaskResult(getTaskBody(tasks, id))
    /\ call' = Call("getTask", id, DefaultTask, NoUpdates)
    /\ UNCHANGED <<storeVars, clock, apiVars, threadVars>>

updateTask(id, updatedTask) ==
    /\ call = NoCall
    /\ mtx = NoThread
    /\ LET r == updateTaskBody(tasks, id, updatedTask, clock)
       IN  /\ tasks' = r.tasks
           /\ result' = BoolResult(r.ret)
    /\ call' = Call("updateTask", id, updatedTask, NoUpdates)
    /\ UNCHANGED <<nextId, mtx, issued, erased, clock, apiVars, threadVars>>

patchTask(id, updates) ==
    /\ call = NoCall
    /\ mtx = NoThread
    /\ LET r == patchTaskBody(tasks, id, updates, clock)
       IN  /\ tasks' = r.tasks
           /\ result' = IF r.raised THEN Raised ELSE BoolResult(r.ret)
    /\ call' = Call("patchTask", id, DefaultTask, updates)
    /\ UNCHANGED <<nextId, mtx, issued, erased, clock, apiVars, threadVars>>

deleteTask(id) ==
    /\ call = NoCall
    /\ mtx = NoThread
    /\ LET r == deleteTaskBody(tasks, id)
       IN  /\ tasks' = r.tasks
           /\ result' = BoolResult(r.ret)
           /\ erased' = IF r.ret THEN erased + 1 ELSE erased
    /\ call' = Call("deleteTask", id, DefaultTask, NoUpdates)
    /\ UNCHANGED <<nextId, mtx, issued, clock, apiVars, threadVars>>

count ==
    /\ call = NoCall
    /\ result' = CountResult(countBody(tasks, nextId))
    /\ call' = Call("count", 0, DefaultTask, NoUpdates)
    /\ UNCHANGED <<storeVars, clock, apiVars, threadVars>>

\* the caller has its result and is ready for its next call
return ==
    /\ call # NoCall
    /\ call' = NoCall
    /\ result' = NoResult
    /\ UNCHANGED <<storeVars, clock, apiVars, threadVars>>

Init == InitStore /\ InitIdle

Next ==
    \/ Tick
    \/ \E task \in InTasks : createTask(task)
    \/ getAllTasks
    \/ \E id \in Ids : getTask(id)
    \/ \E id \in Ids, task \in InTasks : updateTask(id, task)
    \/ \E id \in Ids, updates \in InUpdates : patchTask(id, updates)
    \/ \E id \in Ids : deleteTask(id)
    \/ count
    \/ return

Spec == Init /\ [][Next]_vars

(***************************************************************************)
(* Properties of TaskStorage, checked under Spec.                          *)
(***************************************************************************)
\* the step is a call of op: the caller was idle and now has op's result
CallStep(op) == call = NoCall /\ call'.op = op

\* the task stored under k is the same before and after the step
SameTask(k) == k \in DOMAIN tasks' /\ tasks'[k] = tasks[k]

\* C4: getTask(id) returns a Task with id 0 exactly when no task is stored
\* under id; when one is, it returns that task, with the stored id, title,
\* description and status.  No stored task has id 0.
C4_GetTaskSentinel ==
    /\ \A k \in DOMAIN tasks : k # 0 /\ tasks[k].id # 0
    /\ call.op = "getTask" =>
         /\ result.kind = "task"
         /\ result.task.id = 0 <=> call.id \notin DOMAIN tasks
         /\ call.id \in DOMAIN tasks =>
              /\ result.task.id = call.id
              /\ result.task.id = tasks[call.id].id
              /\ result.task.title = tasks[call.id].title
              /\ result.task.description = tasks[call.id].description
              /\ result.task.status = tasks[call.id].status

\* getTask has answered for a stored id
C4_Witness ==
    /\ call.op = "getTask"
    /\ call.id \in DOMAIN tasks
    /\ result.task.title = "A"
    /\ Size(tasks) = 1

\* C5: updateTask, patchTask and deleteTask with an id that is not stored
\* return false and change nothing: the same tasks with the same fields
\* (update_time included), the same count, the same next id.
C5_MissingIdIsNoOp ==
    [][\A op \in {"updateTask", "patchTask", "deleteTask"} :
         (CallStep(op) /\ call'.id \notin DOMAIN tasks) =>
            /\ result' = BoolResult(FALSE)
            /\ tasks' = tasks
            /\ countBody(tasks', nextId') = countBody(tasks, nextId)
            /\ nextId' = nextId]_vars

\* a call on a missing id has returned false while a task whose fields and
\* update_time a stray write would have changed is stored
C5_Witness ==
    /\ call.op = "patchTask"
    /\ call.id \notin DOMAIN tasks
    /\ call.updates.title = Str("A")
    /\ result = BoolResult(FALSE)
    /\ clock > StartClock
    /\ \E k \in DOMAIN tasks :
          tasks[k].title = "" /\ tasks[k].update_time = FormatTime(StartClock)

\* C6: patchTask on a stored id sets each of title, description and status
\* whose key is in the update map to the supplied value, leaves every field
\* whose key is absent, the id, create_time and all other tasks as they
\* were, and returns true.
C6_PatchOnlySupplied ==
    [][\A id \in DOMAIN tasks :
         (CallStep("patchTask") /\ call'.id = id) =>
            /\ result' = BoolResult(TRUE)
            /\ DOMAIN tasks' = DOMAIN tasks
            /\ \A key \in Keys :
                  IF contains(call'.updates, key)
                  THEN Str(tasks'[id][key]) = call'.updates[key]
                  ELSE tasks'[id][key] = tasks[id][key]
            /\ tasks'[id].id = tasks[id].id
            /\ tasks'[id].create_time = tasks[id].create_time
            /\ \A k \in DOMAIN tasks \ {id} : SameTask(k)]_vars

\* C8: getAllTasks returns exactly the stored tasks, each once, in strictly
\* ascending id order; count() is the number of live tasks: the createTask
\* calls so far minus the deleteTask calls that returned true.
C8_GetAllAscendingAndCount ==
    /\ call.op = "getAllTasks" =>
         /\ result.kind = "list"
         /\ Len(result.list) = Size(tasks)
         /\ \A i \in 1..Len(result.list) :
               /\ result.list[i].id \in DOMAIN tasks
               /\ result.list[i] = tasks[result.list[i].id]
         /\ \A i, j \in 1..Len(result.list) :
               i < j => result.list[i].id < result.list[j].id
    /\ call.op = "count" =>
         /\ result.kind = "count"
         /\ result.n = Size(tasks)
         /\ result.n = Len(issued) - erased

\* getAllTasks has returned two tasks
C8_Witness ==
    /\ call.op = "getAllTasks"
    /\ Len(result.list) = 2
    /\ result.list[1].id < result.list[2].id

\* C9: with a clock that never goes backwards, every stored task has
\* update_time >= create_time, whatever creates, updates and patches ran.
C9_UpdateNotBeforeCreate ==
    \A k \in DOMAIN tasks : LexLeq(tasks[k].create_time, tasks[k].update_time)

\* a task created in one second has been updated or patched in a later one
C9_Witness ==
    \E k \in DOMAIN tasks :
       /\ tasks[k].create_time = FormatTime(StartClock)
       /\ tasks[k].update_time = FormatTime(StartClock + 1)

\* C10: the task createTask returns, and the task stored under its id right
\* after the call, have create_time = update_time = the clock at insertion,
\* whatever timestamps the argument carried.
C10_CreateStampsBoth ==
    [][CallStep("createTask") =>
         /\ result'.kind = "task"
         /\ result'.task.create_time = FormatTime(clock)
         /\ result'.task.update_time = FormatTime(clock)
         /\ result'.task.id \in DOMAIN tasks'
         /\ tasks'[result'.task.id] = result'.task]_vars

\* createTask has run on an argument that carried older timestamps
C10_Witness ==
    /\ call.op = "createTask"
    /\ call.task.update_time = FormatTime(StartClock)
    /\ result.task.update_time = FormatTime(StartClock + 1)
    /\ result.task.create_time = result.task.update_time

(***************************************************************************)
(* SpecThreads: the handler threads of the HTTP server call TaskStorage    *)
(* concurrently.  A thread is at one of these places:                      *)
(*   idle         between calls                                            *)
(*   lock         at the std::lock_guard of the operation it called        *)
(*   cs           holding the mutex, at the first statement of the body    *)
(*   title, description, status, time                                      *)
(*                holding the mutex, at that write of updateTask/patchTask *)
(*   unlock       holding the mutex, at the return (the guard's            *)
(*                destructor; also reached by an exception unwinding)      *)
(*   read         inside count(), at tasks.size(): count() takes no lock   *)
(*   done         back in the caller, with the result                      *)
(* The clock is not followed here: it stays at StartClock.                 *)
(***************************************************************************)
\* createTask stores this task, updateTask replaces it by one that differs
\* in title, description and status
ThreadCreated ==
    [DefaultTask EXCEPT !.title = "A", !.description = "d", !.status = "done"]
ThreadUpdated == DefaultTask

ThreadUpdates ==
    { [NoUpdates EXCEPT !.status = Str("todo")],
      [NoUpdates EXCEPT !.title = Str(""), !.status = Num] }

\* the ids the threads read, update and patch: the first one issued and one
\* that is never issued; they delete any id
ThreadIds == {1, MaxId + 1}

ThreadCalls ==
    { Call("createTask", 0, ThreadCreated, NoUpdates),
      Call("getAllTasks", 0, DefaultTask, NoUpdates),
      Call("count", 0, DefaultTask, NoUpdates) }
    \cup { Call("getTask", id, DefaultTask, NoUpdates) : id \in ThreadIds }
    \cup { Call("deleteTask", id, DefaultTask, NoUpdates) : id \in Ids }
    \cup { Call("updateTask", id, ThreadUpdated, NoUpdates) : id \in ThreadIds }
    \cup { Call("patchTask", id, DefaultTask, updates) :
             id \in ThreadIds, updates \in ThreadUpdates }

Locking == {"createTask", "getAllTasks", "getTask", "updateTask", "patchTask",
            "deleteTask"}
Mutators == {"createTask", "updateTask", "patchTask", "deleteTask"}
WritePlaces == <<"title", "description", "status", "time">>

\* the place after p in WritePlaces ("unlock" after the last)
AfterPlace(p) ==
    LET i == CHOOSE k \in 1..Len(WritePlaces) : WritePlaces[k] = p
    IN  IF i = Len(WritePlaces) THEN "unlock" ELSE WritePlaces[i + 1]

At(t, place) == pc[t] = place
Goto(t, place) == pc' = [pc EXCEPT ![t] = place]
Return(t, r) == ret' = [ret EXCEPT ![t] = r]

\* a handler thread calls an operation of the store
invoke(t, c) ==
    /\ At(t, "idle")
    /\ c.op = "createTask" =>
          nextId + Cardinality({u \in Threads :
                        req[u].op = "createTask" /\ pc[u] \in {"lock", "cs"}})
            <= MaxId
    /\ req' = [req EXCEPT ![t] = c]
    /\ Goto(t, IF c.op \in Locking THEN "lock" ELSE "read")
    /\ UNCHANGED <<storeVars, clock, seqVars, apiVars, ret>>

acquire_NoExclusion(t) ==
    /\ At(t, "lock")
    /\ mtx' = t
    /\ Goto(t, "cs")
    /\ UNCHANGED <<tasks, nextId, issued, erased, clock, seqVars, apiVars, req, ret>>

\* std::lock_guard<std::mutex> lock(mtx): blocks while another thread holds it
acquire(t) ==
    /\ At(t, "lock")
    /\ mtx = NoThread
    /\ mtx' = t
    /\ Goto(t, "cs")
    /\ UNCHANGED <<tasks, nextId, issued, erased, clock, seqVars, apiVars, req, ret>>

\* the body of createTask
csCreateTask(t) ==
    /\ At(t, "cs") /\ req[t].op = "createTask"
    /\ LET r == createTaskBody(tasks, nextId, req[t].task, clock)
       IN  /\ tasks' = r.tasks
           /\ nextId' = r.nextId
           /\ issued' = Append(issued, r.ret.id)
           /\ Return(t, TaskResult(r.ret))
    /\ Goto(t, "unlock")
    /\ UNCHANGED <<mtx, erased, clock, seqVars, apiVars, req>>

\* the body of getAllTasks
csGetAllTasks(t) ==
    /\ At(t, "cs") /\ req[t].op = "getAllTasks"
    /\ Return(t, ListResult(getAllTasksBody(tasks)))
    /\ Goto(t, "unlock")
    /\ UNCHANGED <<storeVars, clock, seqVars, apiVars, req>>

\* the body of getTask
csGetTask(t) ==
    /\ At(t, "cs") /\ req[t].op = "getTask"
    /\ Return(t, TaskResult(getTaskBody(tasks, req[t].id)))
    /\ Goto(t, "unlock")
    /\ UNCHANGED <<storeVars, clock, seqVars, apiVars, req>>

\* auto it = tasks.find(id) of updateTask and patchTask: return false when
\* it fails, else go on to the writes
csFind(t) ==
    /\ At(t, "cs") /\ req[t].op \in {"updateTask", "patchTask"}
    /\ IF req[t].id \in DOMAIN tasks
       THEN Goto(t, WritePlaces[1]) /\ UNCHANGED ret
       ELSE Goto(t, "unlock") /\ Return(t, BoolResult(FALSE))
    /\ UNCHANGED <<storeVars, clock, seqVars, apiVars, req>>

\* task.<key> = updatedTask.<key> of updateTask
updateField(t, key) ==
    /\ At(t, key) /\ req[t].op = "updateTask"
    /\ LET task == tasks[req[t].id]
           written == CASE key = "title" -> assignTitle(task, req[t].task)
                        [] key = "description" ->
                               assignDescription(task, req[t].task)
                        [] key = "status" -> assignStatus(task, req[t].task)
       IN  tasks' = Put(tasks, req[t].id, written)
    /\ Goto(t, AfterPlace(key))
    /\ UNCHANGED <<nextId, mtx, issued, erased, clock, seqVars, apiVars, req, ret>>

\* if (updates.contains(key)) task.<key> = updates[key] of patchTask; a value
\* that is no string raises, and the unwinding releases the mutex
patchFieldStep(t, key) ==
    /\ At(t, key) /\ req[t].op = "patchTask"
    /\ IF patchThrows(req[t].updates, key)
       THEN /\ Goto(t, "unlock")
            /\ Return(t, Raised)
            /\ UNCHANGED tasks
       ELSE /\ tasks' = Put(tasks, req[t].id,
                            patchField(tasks[req[t].id], req[t].updates, key))
            /\ Goto(t, AfterPlace(key))
            /\ UNCHANGED ret
    /\ UNCHANGED <<nextId, mtx, issued, erased, clock, seqVars, apiVars, req>>

\* task.updateTime(); return true; of updateTask and patchTask
stampUpdated(t) ==
    /\ At(t, "time")
    /\ tasks' = Put(tasks, req[t].id, updateTime(tasks[req[t].id], clock))
    /\ Return(t, BoolResult(TRUE))
    /\ Goto(t, "unlock")
    /\ UNCHANGED <<nextId, mtx, issued, erased, clock, seqVars, apiVars, req>>

\* the body of deleteTask
csDeleteTask(t) ==
    /\ At(t, "cs") /\ req[t].op = "deleteTask"
    /\ LET r == deleteTaskBody(tasks, req[t].id)
       IN  /\ tasks' = r.tasks
           /\ erased' = IF r.ret THEN erased + 1 ELSE erased
           /\ Return(t, BoolResult(r.ret))
    /\ Goto(t, "unlock")
    /\ UNCHANGED <<nextId, mtx, issued, clock, seqVars, apiVars, req>>

release_KeepsMutex(t) ==
    /\ At(t, "unlock")
    /\ mtx = t
    /\ Goto(t, "done")
    /\ UNCHANGED <<storeVars, clock, seqVars, apiVars, req, ret>>

\* the lock_guard goes out of scope
release(t) ==
    /\ At(t, "unlock")
    /\ mtx = t
    /\ mtx' = NoThread
    /\ Goto(t, "done")
    /\ UNCHANGED <<tasks, nextId, issued, erased, clock, seqVars, apiVars, req, ret>>

\* return tasks.size() of count(), with no lock taken: the load of the size
\* races with a writer's store to it and yields the size before or after
\* that store, which is this step taken before or after the writer's step
countRead(t) ==
    /\ At(t, "read")
    /\ Return(t, CountResult(countBody(tasks, nextId)))
    /\ Goto(t, "done")
    /\ UNCHANGED <<storeVars, clock, seqVars, apiVars, req>>

\* the caller has its result and is ready for its next call
finish(t) ==
    /\ At(t, "done")
    /\ Goto(t, "idle")
    /\ req' = [req EXCEPT ![t] = NoCall]
    /\ Return(t, NoResult)
    /\ UNCHANGED <<storeVars, clock, seqVars, apiVars>>

NextThreads ==
    \E t \in Threads :
        \/ \E c \in ThreadCalls : invoke(t, c)
        \/ acquire(t)
        \/ csCreateTask(t)
        \/ csGetAllTasks(t)
        \/ csGetTask(t)
        \/ csFind(t)
        \/ \E key \in Keys : updateField(t, key)
        \/ \E key \in Keys : patchFieldStep(t, key)
        \/ stampUpdated(t)
        \/ csDeleteTask(t)
        \/ release(t)
        \/ countRead(t)
        \/ finish(t)

SpecThreads == Init /\ [][NextThreads]_vars

(***************************************************************************)
(* Properties of the concurrent store, checked under SpecThreads.          *)
(***************************************************************************)
\* C1: under any interleaving of createTask, updateTask, patchTask and
\* deleteTask, every id createTask returns is >= 1, was returned by no
\* earlier createTask and is greater than every id returned before, also
\* after tasks have been deleted.
C1_IdsNeverReused ==
    /\ \A i \in 1..Len(issued) : issued[i] >= 1
    /\ \A i, j \in 1..Len(issued) : i < j => issued[i] < issued[j]
    /\ \A t \in Threads :
          (req[t].op = "createTask" /\ pc[t] \in {"unlock", "done"}) =>
             /\ ret[t].kind = "task"
             /\ \E i \in 1..Len(issued) : issued[i] = ret[t].task.id

\* a createTask has returned after the only stored task was deleted
C1_Witness ==
    /\ Len(issued) = 2
    /\ erased = 1
    /\ \E t \in Threads :
          /\ req[t].op = "createTask" /\ pc[t] = "done"
          /\ DOMAIN tasks = {ret[t].task.id}

\* thread t is at a statement that reads or writes the map
InMap(t) == pc[t] \in {"cs", "title", "description", "status", "time", "read"}

\* thread t is inside the critical section of an operation that writes
InMutation(t) == InMap(t) /\ req[t].op \in Mutators

\* C2: every operation, count() included, holds the mutex for the whole of
\* its access to the map: no thread reads or writes the map while another
\* thread is inside a mutating operation.
C2_NoAccessDuringMutation ==
    \A t, u \in Threads : (t # u /\ InMutation(t)) => ~InMap(u)

(***************************************************************************)
(* TodoAPI: validation, the JSON form of a Task, and the handlers.         *)
(***************************************************************************)
isStatusValid_AcceptsAll(status) == TRUE

\* isStatusValid
isStatusValid(status) ==
    status = "todo" \/ status = "in_progress" \/ status = "done"

\* Task::fromJson raises when a key it reads holds no string
fromJsonThrows(j) == \E key \in Keys : contains(j, key) /\ ConvThrows(j[key])

fromJson_ReadsId(j) ==
    [DefaultTask EXCEPT
        !.id = j.id.n,
        !.title = IF contains(j, "title") THEN AsString(j.title) ELSE @,
        !.description =
            IF contains(j, "description") THEN AsString(j.description) ELSE @,
        !.status = IF contains(j, "status") THEN AsString(j.status) ELSE @]

fromJson_EmptyStatus(j) ==
    [DefaultTask EXCEPT
        !.title = IF contains(j, "title") THEN AsString(j.title) ELSE @,
        !.description =
            IF contains(j, "description") THEN AsString(j.description) ELSE @,
        !.status = IF contains(j, "status") THEN AsString(j.status) ELSE ""]

\* Task::fromJson: a Task() with the title, description and status that j has
fromJson(j) ==
    [DefaultTask EXCEPT
        !.title = IF contains(j, "title") THEN AsString(j.title) ELSE @,
        !.description =
            IF contains(j, "description") THEN AsString(j.description) ELSE @,
        !.status = IF contains(j, "status") THEN AsString(j.status) ELSE @]

checkJsonTasks_StatusUnchecked(body) ==
    IF ~contains(body, "title") \/ JsonEmpty(body.title)
    THEN "Title is required"
    ELSE "ok"

\* TodoAPI::checkJsonTasks: "ok", the error it reports, or "raised" when the
\* conversion of a status that is no string raises
checkJsonTasks(body) ==
    IF ~contains(body, "title") \/ JsonEmpty(body.title)
    THEN "Title is required"
    ELSE IF contains(body, "status")
         THEN IF ConvThrows(body.status) THEN "raised"
              ELSE IF ~isStatusValid(AsString(body.status))
                   THEN "Invalid status"
                   ELSE "ok"
         ELSE "ok"

patchStatusCheck_Unchecked(body) == "ok"

\* the checks of the PATCH handler before it calls the store
patchStatusCheck(body) ==
    IF ObjectEmpty(body) THEN "No fields to update"
    ELSE IF contains(body, "status")
         THEN IF ConvThrows(body.status) THEN "raised"
              ELSE IF ~isStatusValid(AsString(body.status))
                   THEN "Invalid status"
                   ELSE "ok"
         ELSE "ok"

TaskResponse(code, task) ==
    [NoResponse EXCEPT !.status = code, !.task = toJson(task)]
ErrorResponse(code, error) ==
    [NoResponse EXCEPT !.status = code, !.error = error]
\* a nlohmann type_error is no json::parse_error: no catch clause of the
\* handler takes it, it leaves the handler and the server answers 500
Unhandled == ErrorResponse(500, "type_error")

\* the three tasks of TodoAPI::initialize
SeedTasks(now) ==
    << NewTask(0, "Buy milk", "Fat 3.2%", "todo", now),
       NewTask(0, "Run API", "Configure and start server", "in_progress", now),
       NewTask(0, "Explore Postman", "Check REST API", "done", now) >>

\* at most MaxPosts POST requests arrive
MaxPosts == 1
SeedCount == Len(SeedTasks(StartClock))

\* the ids requests name: PUT, PATCH and DELETE the first seeded task or an
\* id that is never issued, GET also the first task a POST creates
WriteIds == {1, SeedCount + MaxPosts + 1}
ReadIds == WriteIds \cup {SeedCount + 1}

\* request bodies: malformed JSON, or an object with these values
ApiBodies ==
    { [title |-> ti, description |-> Absent, status |-> st] :
        ti \in {Absent, Str(""), Str("A"), Num},
        st \in {Absent, Str("done"), Str("bogus"), Num} }
    \cup { [title |-> Str("A"), description |-> Str("d"), status |-> Absent] }

Request(method, id, parsed, body) ==
    [method |-> method, id |-> id, parsed |-> parsed, body |-> body]

\* TodoAPI::run: initialize() stores the three seeds, then the server listens
initialize ==
    /\ ~started
    /\ LET seeds == SeedTasks(clock)
           r1 == createTaskBody(tasks, nextId, seeds[1], clock)
           r2 == createTaskBody(r1.tasks, r1.nextId, seeds[2], clock)
           r3 == createTaskBody(r2.tasks, r2.nextId, seeds[3], clock)
       IN  /\ tasks' = r3.tasks
           /\ nextId' = r3.nextId
           /\ issued' = issued \o <<r1.ret.id, r2.ret.id, r3.ret.id>>
    /\ started' = TRUE
    /\ UNCHANGED <<mtx, erased, clock, request, response, seqVars, threadVars>>

\* a handler runs for a request: the server listens and no other is running
Serving == started /\ request = NoRequest

\* what every handler leaves alone
HandlerFrame == UNCHANGED <<mtx, clock, started, seqVars, threadVars>>

\* svr.Post("/tasks")
postTasks(parsed, body) ==
    /\ Serving
    /\ nextId <= SeedCount + MaxPosts
    /\ request' = Request("POST", 0, parsed, body)
    /\ LET check == checkJsonTasks(body)
       IN  IF ~parsed
           THEN /\ response' = ErrorResponse(400, "Invalid JSON format")
                /\ UNCHANGED <<tasks, nextId, issued>>
           ELSE IF check = "raised" \/ (check = "ok" /\ fromJsonThrows(body))
           THEN /\ response' = Unhandled
                /\ UNCHANGED <<tasks, nextId, issued>>
           ELSE IF check # "ok"
           THEN /\ response' = ErrorResponse(400, check)
                /\ UNCHANGED <<tasks, nextId, issued>>
           ELSE LET r == createTaskBody(tasks, nextId, fromJson(body), clock)
                IN  /\ tasks' = r.tasks
                    /\ nextId' = r.nextId
                    /\ issued' = Append(issued, r.ret.id)
                    /\ response' = TaskResponse(201, r.ret)
    /\ UNCHANGED erased
    /\ HandlerFrame

\* svr.Put("/tasks/(\\d+)")
putTask(id, parsed, body) ==
    /\ Serving
    /\ request' = Request("PUT", id, parsed, body)
    /\ LET check == checkJsonTasks(body)
       IN  IF ~parsed
           THEN /\ response' = ErrorResponse(400, "Invalid JSON format")
                /\ UNCHANGED tasks
           ELSE IF check = "raised" \/ (check = "ok" /\ fromJsonThrows(body))
           THEN /\ response' = Unhandled
                /\ UNCHANGED tasks
           ELSE IF check # "ok"
           THEN /\ response' = ErrorResponse(400, check)
                /\ UNCHANGED tasks
           ELSE LET r == updateTaskBody(tasks, id, fromJson(body), clock)
                IN  /\ tasks' = r.tasks
                    /\ response' =
                         IF r.ret
                         THEN TaskResponse(200, getTaskBody(r.tasks, id))
                         ELSE ErrorResponse(404, "Task not found")
    /\ UNCHANGED <<nextId, issued, erased>>
    /\ HandlerFrame

patchTaskReply_ChecksAfter(m, id, parsed, body, now) ==
    LET check == patchStatusCheck(body)
        r == patchTaskBody(m, id, [body EXCEPT !.status = Absent], now)
    IN  IF ~parsed
        THEN [tasks |-> m, response |-> ErrorResponse(400, "Invalid JSON format")]
        ELSE IF check = "raised" \/ r.raised
        THEN [tasks |-> r.tasks, response |-> Unhandled]
        ELSE IF check # "ok"
        THEN [tasks |-> r.tasks, response |-> ErrorResponse(400, check)]
        ELSE [tasks |-> patchTaskBody(m, id, body, now).tasks,
              response |->
                 IF r.ret
                 THEN TaskResponse(200, getTaskBody(
                          patchTaskBody(m, id, body, now).tasks, id))
                 ELSE ErrorResponse(404, "Task not found")]

\* the PATCH handler as a function of the store and the request: the map it
\* leaves and the response it sends
patchTaskReply(m, id, parsed, body, now) ==
    LET check == patchStatusCheck(body)
    IN  IF ~parsed
        THEN [tasks |-> m, response |-> ErrorResponse(400, "Invalid JSON format")]
        ELSE IF check = "raised"
        THEN [tasks |-> m, response |-> Unhandled]
        ELSE IF check # "ok"
        THEN [tasks |-> m, response |-> ErrorResponse(400, check)]
        ELSE LET r == patchTaskBody(m, id, body, now)
             IN  [tasks |-> r.tasks,
                  response |->
                     IF r.raised THEN Unhandled
                     ELSE IF r.ret
                     THEN TaskResponse(200, getTaskBody(r.tasks, id))
                     ELSE ErrorResponse(404, "Task not found")]

\* svr.Patch("/tasks/(\\d+)")
patchTaskHandler(id, parsed, body) ==
    /\ Serving
    /\ request' = Request("PATCH", id, parsed, body)
    /\ LET r == patchTaskReply(tasks, id, parsed, body, clock)
       IN  /\ tasks' = r.tasks
           /\ response' = r.response
    /\ UNCHANGED <<nextId, issued, erased>>
    /\ HandlerFrame

\* svr.Delete("/tasks/(\\d+)")
deleteTaskHandler(id) ==
    /\ Serving
    /\ request' = Request("DELETE", id, TRUE, NoUpdates)
    /\ LET r == deleteTaskBody(tasks, id)
       IN  /\ tasks' = r.tasks
           /\ erased' = IF r.ret THEN erased + 1 ELSE erased
           /\ response' = IF r.ret THEN [NoResponse EXCEPT !.status = 204]
                          ELSE ErrorResponse(404, "Task not found")
    /\ UNCHANGED <<nextId, issued>>
    /\ HandlerFrame

\* the response of the GET /tasks/{id} handler
getTaskReply(m, id) ==
    LET task == getTaskBody(m, id)
    IN  IF task.id # 0 THEN TaskResponse(200, task)
        ELSE ErrorResponse(404, "Task not found")

\* svr.Get("/tasks/(\\d+)")
getTaskHandler(id) ==
    /\ Serving
    /\ request' = Request("GET", id, TRUE, NoUpdates)
    /\ response' = getTaskReply(tasks, id)
    /\ UNCHANGED storeVars
    /\ HandlerFrame

\* svr.Get("/tasks")
getTasksHandler ==
    /\ Serving
    /\ request' = Request("GET /tasks", 0, TRUE, NoUpdates)
    /\ LET all == getAllTasksBody(tasks)
       IN  response' = [NoResponse EXCEPT
                          !.status = 200,
                          !.list = [i \in 1..Len(all) |-> toJson(all[i])]]
    /\ UNCHANGED storeVars
    /\ HandlerFrame

\* svr.Get("/status")
getStatusHandler ==
    /\ Serving
    /\ request' = Request("GET /status", 0, TRUE, NoUpdates)
    /\ response' = [NoResponse EXCEPT !.status = 200,
                                      !.n = countBody(tasks, nextId)]
    /\ UNCHANGED storeVars
    /\ HandlerFrame

\* the response is sent
respond ==
    /\ request # NoRequest
    /\ request' = NoRequest
    /\ response' = NoResponse
    /\ UNCHANGED <<storeVars, clock, started, seqVars, threadVars>>

NextAPI ==
    \/ Tick
    \/ initialize
    \/ \E body \in ApiBodies : postTasks(TRUE, body)
    \/ postTasks(FALSE, NoUpdates)
    \/ \E id \in WriteIds, body \in ApiBodies : putTask(id, TRUE, body)
    \/ \E id \in WriteIds : putTask(id, FALSE, NoUpdates)
    \/ \E id \in WriteIds, body \in ApiBodies : patchTaskHandler(id, TRUE, body)
    \/ \E id \in WriteIds : patchTaskHandler(id, FALSE, NoUpdates)
    \/ \E id \in WriteIds : deleteTaskHandler(id)
    \/ \E id \in ReadIds : getTaskHandler(id)
    \/ getTasksHandler
    \/ getStatusHandler
    \/ respond

SpecAPI == Init /\ [][NextAPI]_vars

(***************************************************************************)
(* Properties of the HTTP handlers, checked under SpecAPI.                 *)
(***************************************************************************)
\* the step is the handler of a request with this method and a JSON body
\* that parses
HandlerStep(method) ==
    request = NoRequest /\ request'.method = method /\ request'.parsed

ValidStatuses == {"todo", "in_progress", "done"}

\* C3: POST /tasks with no title, or with the empty string as title, is
\* answered 400 and creates no task (store and id counter unchanged).
C3_PostRequiresTitle ==
    [][(/\ HandlerStep("POST")
        /\ \/ ~contains(request'.body, "title")
           \/ request'.body.title = Str(""))
       => /\ response'.status = 400
          /\ tasks' = tasks
          /\ nextId' = nextId]_vars

\* C7: after seeding and any POST, PUT, PATCH and DELETE requests every
\* stored task has status todo, in_progress or done; a POST, PUT or PATCH
\* that supplies any other status is answered 400 and changes nothing.
C7_StatusValidated ==
    /\ [](\A k \in DOMAIN tasks : tasks[k].status \in ValidStatuses)
    /\ [][\A method \in {"POST", "PUT", "PATCH"} :
            (/\ HandlerStep(method)
             /\ contains(request'.body, "status")
             /\ request'.body.status \notin {Str(st) : st \in ValidStatuses})
            => /\ response'.status = 400
               /\ tasks' = tasks
               /\ nextId' = nextId]_vars

\* what holds of the statuses: the stored ones are valid, and a status that
\* is a string other than the three is answered 400 with nothing changed
C7_StoredStatusValid ==
    /\ [](\A k \in DOMAIN tasks : tasks[k].status \in ValidStatuses)
    /\ [][\A method \in {"POST", "PUT", "PATCH"} :
            (/\ HandlerStep(method)
             /\ contains(request'.body, "status")
             /\ ~ConvThrows(request'.body.status)
             /\ AsString(request'.body.status) \notin ValidStatuses)
            => /\ response'.status = 400
               /\ tasks' = tasks
               /\ nextId' = nextId]_vars

(***************************************************************************)
(* Further properties of TaskStorage, checked under Spec.                  *)
(***************************************************************************)
\* the step is a call of any operation of the store
AnyCallStep == call = NoCall /\ call' # NoCall

\* the operation of the step reported success: true, or a stored task
ReportsSuccess ==
    \/ result'.kind = "bool" /\ result'.b
    \/ result'.kind = "task" /\ result'.task.id # 0
    \/ result'.kind \in {"list", "count"}

\* C11: no operation of the store raises, whatever it is given (a patch map
\* with a title, description or status that is no string included): it
\* completes, reports failure by false or the sentinel only, and when it
\* does not report success the stored tasks are as before (no partly
\* applied patch).
C11_StoreNeverRaises ==
    [][AnyCallStep =>
         /\ result'.kind # "raised"
         /\ ~ReportsSuccess => tasks' = tasks]_vars

\* C14: updateTask on a stored id replaces title, description and status by
\* those of the supplied Task, refreshes update_time, returns true and
\* leaves the id, create_time and every other task alone; the id and the
\* timestamps of the supplied Task are ignored.
C14_UpdateReplacesFields ==
    [][\A id \in DOMAIN tasks :
         (CallStep("updateTask") /\ call'.id = id) =>
            /\ result' = BoolResult(TRUE)
            /\ DOMAIN tasks' = DOMAIN tasks
            /\ tasks'[id].title = call'.task.title
            /\ tasks'[id].description = call'.task.description
            /\ tasks'[id].status = call'.task.status
            /\ tasks'[id].update_time = FormatTime(clock)
            /\ tasks'[id].id = tasks[id].id
            /\ tasks'[id].create_time = tasks[id].create_time
            /\ \A k \in DOMAIN tasks \ {id} : SameTask(k)]_vars

\* updateTask has replaced, in a later second, the fields of one of two
\* stored tasks by those of a Task that carries an id and timestamps
C14_Witness ==
    /\ call.op = "updateTask"
    /\ call.id \in DOMAIN tasks
    /\ call.task.id = 7
    /\ call.task.create_time # NoTime
    /\ result = BoolResult(TRUE)
    /\ Size(tasks) = 2
    /\ tasks[call.id].title = "A"
    /\ tasks[call.id].create_time = FormatTime(StartClock)
    /\ tasks[call.id].update_time = FormatTime(StartClock + 1)

\* C15: createTask stores and returns a task with the title, description
\* and status of its argument and with the store's next counter value as
\* id, whatever id the argument carries.
C15_CreateAssignsId ==
    [][CallStep("createTask") =>
         /\ result'.kind = "task"
         /\ result'.task.title = call'.task.title
         /\ result'.task.description = call'.task.description
         /\ result'.task.status = call'.task.status
         /\ result'.task.id = nextId
         /\ nextId' = nextId + 1
         /\ DOMAIN tasks' = DOMAIN tasks \cup {nextId}
         /\ tasks'[nextId] = result'.task
         /\ \A k \in DOMAIN tasks : SameTask(k)]_vars

\* createTask has run on an argument that carried an id of its own
C15_Witness ==
    /\ call.op = "createTask"
    /\ call.task.id = 7
    /\ result.task.id = 2
    /\ result.task.title = "A"
    /\ tasks[2] = result.task

\* C19: a default-constructed Task (what getTask returns when nothing is
\* found, what fromJson starts from) has id 0, empty title and description,
\* status "todo" and non-empty create_time and update_time.
C19_DefaultTaskStamped ==
    (call.op = "getTask" /\ call.id \notin DOMAIN tasks) =>
        /\ result.task = DefaultTask
        /\ result.task.id = 0
        /\ result.task.title = ""
        /\ result.task.description = ""
        /\ result.task.status = "todo"
        /\ result.task.create_time # NoTime
        /\ result.task.update_time # NoTime

\* the ids that were issued and are stored no more
Deleted == {issued[i] : i \in 1..Len(issued)} \ DOMAIN tasks

\* C13: deleteTask on a stored id returns true and removes that task only
\* (count one less, the others unchanged); from then on the id stays out of
\* the store whatever is called, getTask on it returns the id 0 sentinel and
\* GET /tasks/{id} answers 404, because the id is not issued again.
C13_DeletedStaysDeleted ==
    /\ [][\A id \in DOMAIN tasks :
            (CallStep("deleteTask") /\ call'.id = id) =>
               /\ result' = BoolResult(TRUE)
               /\ DOMAIN tasks' = DOMAIN tasks \ {id}
               /\ countBody(tasks', nextId') = countBody(tasks, nextId) - 1
               /\ \A k \in DOMAIN tasks \ {id} : SameTask(k)]_vars
    /\ [][\A id \in Deleted : id \notin DOMAIN tasks']_vars
    /\ [](/\ Cardinality(Deleted) = erased
          /\ \A id \in Deleted :
                /\ getTaskReply(tasks, id).status = 404
                /\ (call.op = "getTask" /\ call.id = id) =>
                      result = TaskResult(DefaultTask))

\* getTask is called on an id that was deleted before the next id was issued
C13_Witness ==
    /\ call.op = "getTask"
    /\ call.id = 1
    /\ Deleted = {1}
    /\ erased = 1
    /\ DOMAIN tasks = {2}

\* C18: patchTask of the store with an empty field map on a stored id
\* returns true and changes nothing of the task but update_time, which is
\* refreshed; the PATCH handler given an empty body answers 400 and does not
\* call the store, so no update_time changes.
C18_EmptyPatchStamps ==
    /\ [][\A id \in DOMAIN tasks :
            (CallStep("patchTask") /\ call'.id = id /\ ObjectEmpty(call'.updates))
            => /\ result' = BoolResult(TRUE)
               /\ tasks' = [tasks EXCEPT ![id].update_time = FormatTime(clock)]]_vars
    /\ [](\A id \in Ids :
             LET r == patchTaskReply(tasks, id, TRUE, NoUpdates, clock)
             IN  /\ r.response = ErrorResponse(400, "No fields to update")
                 /\ r.tasks = tasks)

\* an empty patch has refreshed update_time in a later second
C18_Witness ==
    /\ call.op = "patchTask"
    /\ call.id \in DOMAIN tasks
    /\ ObjectEmpty(call.updates)
    /\ result = BoolResult(TRUE)
    /\ tasks[call.id].title = "A"
    /\ tasks[call.id].create_time = FormatTime(StartClock)
    /\ tasks[call.id].update_time = FormatTime(StartClock + 1)

(***************************************************************************)
(* Further properties of the HTTP handlers, checked under SpecAPI.         *)
(***************************************************************************)
\* the id of the first task a POST creates
FirstPosted == SeedCount + 1

\* the stored tasks that a POST created; no PUT, PATCH or DELETE of SpecAPI
\* names one of them
Posted == {k \in DOMAIN tasks : k >= FirstPosted}

\* the body holds a title that is a non-empty string, and nothing else
TitleOnly(body) ==
    /\ body.title.t = "string"
    /\ body.title.s # ""
    /\ ~contains(body, "description")
    /\ ~contains(body, "status")

\* C16: POST /tasks with only a non-empty title answers 201 with a task of
\* id >= 1, status "todo", empty description and set timestamps; GET
\* /tasks/{id} for that id, the task not having been changed in between,
\* returns the same object: the POST answers with the task as stored, the
\* stored task stays as it is, and the GET answers with the task as stored.
C16_PostTitleOnly ==
    /\ [][(HandlerStep("POST") /\ TitleOnly(request'.body)) =>
            /\ response'.status = 201
            /\ response'.task.id.t = "number"
            /\ response'.task.id.n >= 1
            /\ response'.task.id.n \in DOMAIN tasks' \ DOMAIN tasks
            /\ response'.task.title = request'.body.title
            /\ response'.task.status = Str("todo")
            /\ response'.task.description = Str("")
            /\ response'.task.create_time.stamp # NoTime
            /\ response'.task.update_time.stamp # NoTime
            /\ toJson(tasks'[response'.task.id.n]) = response'.task]_vars
    /\ [][\A k \in Posted : SameTask(k)]_vars
    /\ []((request.method = "GET" /\ request.id \in DOMAIN tasks) =>
            /\ response.status = 200
            /\ response.task = toJson(tasks[request.id]))

\* a task posted with only a title is fetched a second later
C16_Witness ==
    /\ request.method = "GET"
    /\ request.id = FirstPosted
    /\ response.status = 200
    /\ response.task.id = Number(FirstPosted)
    /\ response.task.title = Str("A")
    /\ response.task.description = Str("")
    /\ response.task.status = Str("todo")
    /\ response.task.create_time = TimeStr(FormatTime(StartClock))
    /\ clock = StartClock + 1

(***************************************************************************)
(* SpecJson: Task::toJson and Task::fromJson applied in turn to a Task.    *)
(* call.task is the Task, response.task its JSON form, result what         *)
(* fromJson makes of that.                                                 *)
(***************************************************************************)
\* the Tasks converted: any id, title, description and status (a status may
\* be any string), timestamps unset, set by setTime, or updated later
JsonTasks ==
    { [id |-> id, title |-> ti, description |-> de, status |-> st,
       create_time |-> tm[1], update_time |-> tm[2]] :
        id \in {0, 1, 7},
        ti \in {"", "A"},
        de \in {"", "d"},
        st \in {"todo", "done", "bogus"},
        tm \in { <<NoTime, NoTime>>,
                 <<FormatTime(StartClock), FormatTime(StartClock)>>,
                 <<FormatTime(StartClock), FormatTime(StartClock + 1)>> } }

InitJson ==
    /\ InitStore
    /\ \E t \in JsonTasks : call = Call("Task", 0, t, NoUpdates)
    /\ result = NoResult
    /\ started = FALSE
    /\ request = NoRequest
    /\ response = NoResponse
    /\ pc = [t \in Threads |-> "idle"]
    /\ req = [t \in Threads |-> NoCall]
    /\ ret = [t \in Threads |-> NoResult]

\* json j = t.toJson()
toJsonStep ==
    /\ call.op = "Task"
    /\ response' = [NoResponse EXCEPT !.task = toJson(call.task)]
    /\ call' = [call EXCEPT !.op = "toJson"]
    /\ UNCHANGED <<storeVars, clock, result, started, request, threadVars>>

\* Task back = Task::fromJson(j)
fromJsonStep ==
    /\ call.op = "toJson"
    /\ result' = IF fromJsonThrows(response.task) THEN Raised
                 ELSE TaskResult(fromJson(response.task))
    /\ call' = [call EXCEPT !.op = "fromJson"]
    /\ UNCHANGED <<storeVars, clock, started, request, response, threadVars>>

NextJson == toJsonStep \/ fromJsonStep

SpecJson == InitJson /\ [][NextJson]_vars

\* C17: for every Task t, fromJson(t.toJson()) has the title, description
\* and status of t, has id 0, and carries neither the id nor the timestamps
\* of t.
C17_JsonRoundTrip ==
    call.op = "fromJson" =>
        /\ result.kind = "task"
        /\ result.task.title = call.task.title
        /\ result.task.description = call.task.description
        /\ result.task.status = call.task.status
        /\ result.task.id = 0
        /\ result.task.create_time = NoTime
        /\ result.task.update_time = NoTime

\* a Task with an id, timestamps and a status of its own went through both
C17_Witness ==
    /\ call.op = "fromJson"
    /\ call.task.id = 7
    /\ call.task.update_time = FormatTime(StartClock + 1)
    /\ call.task.status = "bogus"
    /\ call.task.title = "A"
    /\ result.task.status = "bogus"
    /\ response.task.id = Number(7)

(***************************************************************************)
(* SpecHandlers: the PUT, PATCH and DELETE handlers of /tasks/{id} run on  *)
(* two server threads at once.  Each call into the store takes the mutex   *)
(* for its whole body, so it is one step; a handler makes its calls one    *)
(* after the other and the other thread's calls come in between.  A        *)
(* thread is at one of these places:                                       *)
(*   idle      no request                                                  *)
(*   h_write   the body is validated; at taskStorage.updateTask/patchTask  *)
(*   h_read    the write returned true; at taskStorage.getTask             *)
(*   h_delete  at taskStorage.deleteTask                                   *)
(*   h_done    the response is set                                         *)
(* req[t] is the request (method, id, the Task or update map made of the   *)
(* body), ret[t] what the store returned last and then the response.       *)
(***************************************************************************)
\* res.status and the task whose toJson() is the content
HttpResult(status, task) ==
    [NoResult EXCEPT !.kind = "response", !.n = status, !.task = task]

HandlerBodies ==
    { [title |-> Str("A"), description |-> Absent, status |-> Str("done")],
      [NoUpdates EXCEPT !.status = Str("done")],
      [NoUpdates EXCEPT !.title = Num],
      NoUpdates }

\* the first seeded task and an id that is not stored
HandlerIds == {1, SeedCount + 1}

\* the handler up to its call into the store: json::parse and the checks
receive(t, method, id, parsed, body) ==
    /\ started
    /\ At(t, "idle")
    /\ LET check == IF method = "PUT" THEN checkJsonTasks(body)
                    ELSE IF method = "PATCH" THEN patchStatusCheck(body)
                    ELSE "ok"
           raises == \/ check = "raised"
                     \/ method = "PUT" /\ check = "ok" /\ fromJsonThrows(body)
       IN  IF method = "DELETE"
           THEN /\ Goto(t, "h_delete")
                /\ req' = [req EXCEPT ![t] = Call(method, id, DefaultTask, NoUpdates)]
                /\ UNCHANGED ret
           ELSE IF ~parsed \/ raises \/ check # "ok"
           THEN /\ Goto(t, "h_done")
                /\ req' = [req EXCEPT ![t] = Call(method, id, DefaultTask, body)]
                /\ Return(t, HttpResult(IF parsed /\ raises THEN 500 ELSE 400,
                                        DefaultTask))
           ELSE /\ Goto(t, "h_write")
                /\ req' = [req EXCEPT ![t] =
                             Call(method, id,
                                  IF method = "PUT" THEN fromJson(body)
                                  ELSE DefaultTask,
                                  body)]
                /\ UNCHANGED ret
    /\ UNCHANGED <<storeVars, clock, seqVars, apiVars>>

\* if (taskStorage.updateTask(id, updatedTask)) of PUT,
\* if (taskStorage.patchTask(id, body)) of PATCH
callWrite(t) ==
    /\ At(t, "h_write")
    /\ LET u == updateTaskBody(tasks, req[t].id, req[t].task, clock)
           r == IF req[t].op = "PUT"
                THEN [tasks |-> u.tasks, ret |-> u.ret, raised |-> FALSE]
                ELSE patchTaskBody(tasks, req[t].id, req[t].updates, clock)
       IN  /\ tasks' = r.tasks
           /\ IF r.raised
              THEN Goto(t, "h_done") /\ Return(t, HttpResult(500, DefaultTask))
              ELSE IF r.ret
              THEN Goto(t, "h_read") /\ Return(t, BoolResult(TRUE))
              ELSE Goto(t, "h_done") /\ Return(t, HttpResult(404, DefaultTask))
    /\ UNCHANGED <<nextId, mtx, issued, erased, clock, seqVars, apiVars, req>>

\* Task task = taskStorage.getTask(id); res.set_content(task.toJson().dump()):
\* the status stays 200 and the task is not looked at
callGetTask(t) ==
    /\ At(t, "h_read")
    /\ Return(t, HttpResult(200, getTaskBody(tasks, req[t].id)))
    /\ Goto(t, "h_done")
    /\ UNCHANGED <<storeVars, clock, seqVars, apiVars, req>>

\* if (taskStorage.deleteTask(id)) of DELETE
callDeleteTask(t) ==
    /\ At(t, "h_delete")
    /\ LET r == deleteTaskBody(tasks, req[t].id)
       IN  /\ tasks' = r.tasks
           /\ erased' = IF r.ret THEN erased + 1 ELSE erased
           /\ Return(t, HttpResult(IF r.ret THEN 204 ELSE 404, DefaultTask))
    /\ Goto(t, "h_done")
    /\ UNCHANGED <<nextId, mtx, issued, clock, seqVars, apiVars, req>>

\* the response is sent; the thread takes the next request
send(t) ==
    /\ At(t, "h_done")
    /\ Goto(t, "idle")
    /\ req' = [req EXCEPT ![t] = NoCall]
    /\ Return(t, NoResult)
    /\ UNCHANGED <<storeVars, clock, seqVars, apiVars>>

NextHandlers ==
    \/ initialize
    \/ \E t \in Threads :
          \/ \E method \in {"PUT", "PATCH"}, id \in HandlerIds,
                body \in HandlerBodies : receive(t, method, id, TRUE, body)
          \/ \E method \in {"PUT", "PATCH"} : receive(t, method, 1, FALSE, NoUpdates)
          \/ \E id \in HandlerIds : receive(t, "DELETE", id, TRUE, NoUpdates)
          \/ callWrite(t)
          \/ callGetTask(t)
          \/ callDeleteTask(t)
          \/ send(t)

SpecHandlers == Init /\ [][NextHandlers]_vars

\* thread t has answered 200 to a PUT or PATCH
Answered200(t) ==
    /\ pc[t] = "h_done"
    /\ req[t].op \in {"PUT", "PATCH"}
    /\ ret[t].kind = "response"
    /\ ret[t].n = 200

\* C12: under any interleaving of concurrent requests, when the PUT or PATCH
\* handler of /tasks/{id} answers 200 the body is the task with that id
\* (never the id 0 sentinel) and carries the title, description and status
\* this request wrote.
C12_AnswerIsOwnWrite ==
    \A t \in Threads :
       Answered200(t) =>
          LET body == toJson(ret[t].task)
          IN  /\ body.id = Number(req[t].id)
              /\ req[t].op = "PUT" =>
                    /\ body.title = Str(req[t].task.title)
                    /\ body.description = Str(req[t].task.description)
                    /\ body.status = Str(req[t].task.status)
              /\ req[t].op = "PATCH" =>
                    \A key \in Keys :
                       contains(req[t].updates, key) =>
                          body[key] = req[t].updates[key]

(***************************************************************************)
(* SpecThreadsFair: SpecThreads under a fair scheduler.  A thread that can *)
(* take a step of the operation it is in takes it eventually (the code     *)
(* between the lock and the return has no loop but the bounded one of      *)
(* getAllTasks and waits for nothing), and a thread that waits at a        *)
(* lock_guard gets the mutex eventually if it is free again and again.     *)
(* Nothing obliges a thread to call the store at all.                      *)
(***************************************************************************)
\* a step of thread t inside the operation it called, past the lock
ThreadStep(t) ==
    \/ csCreateTask(t)
    \/ csGetAllTasks(t)
    \/ csGetTask(t)
    \/ csFind(t)
    \/ \E key \in Keys : updateField(t, key)
    \/ \E key \in Keys : patchFieldStep(t, key)
    \/ stampUpdated(t)
    \/ csDeleteTask(t)
    \/ release(t)
    \/ countRead(t)

Fairness ==
    \A t \in Threads : WF_vars(ThreadStep(t)) /\ SF_vars(acquire(t))

\* the calls made under the fair scheduler: every operation, on the first id
\* issued (stored or not, as creates and deletes go)
FairCalls == {c \in ThreadCalls : c.id \in {0, 1}}

NextThreadsFair ==
    \E t \in Threads :
        \/ \E c \in FairCalls : invoke(t, c)
        \/ acquire(t)
        \/ ThreadStep(t)
        \/ finish(t)

SpecThreadsFair == Init /\ [][NextThreadsFair]_vars /\ Fairness

\* the places at which a thread holds the mutex
HoldingPlaces == {"cs", "title", "description", "status", "time", "unlock"}

C21_KeysAreIds ==
    /\ \A k \in DOMAIN tasks : tasks[k].id = k /\ k \in 1..(nextId - 1)
    /\ countBody(tasks, nextId) <= nextId - 1

\* after a delete, the one task left was updated with a Task that carries
\* another id
C21_Witness ==
    /\ call.op = "updateTask"
    /\ call.id = 2
    /\ call.task.id = 7
    /\ result = BoolResult(TRUE)
    /\ DOMAIN tasks = {2}
    /\ nextId = 3

\* thread t runs the body of getTask or getAllTasks in this step
ReadStep(t) ==
    /\ pc[t] = "cs"
    /\ pc'[t] = "unlock"
    /\ req[t].op \in {"getTask", "getAllTasks"}

\* C22: under any interleaving of concurrent calls getTask and getAllTasks
\* return no torn task: they read the map while no other thread is inside
\* an operation that holds the mutex, so what they return is the tasks as
\* stored between two complete operations, never the fields of a task
\* half way through an updateTask or patchTask.
C22_NoTornRead ==
    [][\A t \in Threads :
          ReadStep(t) =>
             /\ \A u \in Threads \ {t} : pc[u] \notin HoldingPlaces
             /\ req[t].op = "getTask" =>
                   ret'[t] = TaskResult(getTaskBody(tasks, req[t].id))
             /\ req[t].op = "getAllTasks" =>
                   ret'[t] = ListResult(getAllTasksBody(tasks))]_vars

\* getTask has read the task while an updateTask or patchTask of the same
\* id waits for the mutex
C22_Witness ==
    \E t, u \in Threads :
       /\ req[t].op = "getTask"
       /\ pc[t] = "unlock"
       /\ ret[t].task.id = 1
       /\ ret[t].task = tasks[1]
       /\ req[u].op \in {"updateTask", "patchTask"}
       /\ req[u].id = 1
       /\ pc[u] = "lock"

\* C23: a POST, PUT or PATCH that is answered 400 (title missing, status
\* invalid, patch body empty, JSON malformed) leaves the store as it was:
\* the same tasks with the same fields and timestamps and the same next id,
\* also when the id it names is not stored.
C23_RejectedChangesNothing ==
    [][(/\ request = NoRequest
        /\ request'.method \in {"POST", "PUT", "PATCH"}
        /\ response'.status = 400)
       => /\ tasks' = tasks
          /\ nextId' = nextId]_vars

\* a PATCH that names a title and an invalid status was answered 400, a
\* second after the task it names was created
C23_Witness ==
    /\ request.method = "PATCH"
    /\ request.id = 1
    /\ request.body.title = Str("A")
    /\ request.body.status = Str("bogus")
    /\ response = ErrorResponse(400, "Invalid status")
    /\ tasks[1].title = "Buy milk"
    /\ tasks[1].update_time = FormatTime(StartClock)
    /\ clock = StartClock + 1

=============================================================================
